---- MODULE Spec2Model ----
(***************************************************************************)
(* Model of tools.py: PodcastAudioGenerator (per-line speech synthesis     *)
(* into numbered files) and PodcastMixer (sequential crossfade mix into    *)
(* podcast_final.mp3).                                                     *)
(*                                                                         *)
(* Python strings are sequences of one-character strings, so that strip,   *)
(* the {index:03d} formatting, sorted() and os.path.join / isabs are       *)
(* computed character by character as the interpreter computes them.       *)
(***************************************************************************)
EXTENDS Integers, Sequences, FiniteSets, TLC

VARIABLES
    \* ---- PodcastAudioGenerator ----
    voice_configs,   \* keys of self.voice_configs (registered speaker names)
    normalize,       \* self.audio_config.normalize
    gen_pc,          \* "idle" | "loop" | "done" | "raised"
    dialogue,        \* the argument of _run: a sequence of dicts
    index,           \* loop variable of enumerate(dialogue)
    audio_files,     \* the local list audio_files of the generator
    gen_result,      \* the value returned by the generator's _run
    disk,            \* files under the generator's output_dir: name -> content
    synth_calls,     \* indices for which text_to_speech.convert was called
    outcomes,        \* per processed line, what happened to it
    gen_raised,      \* where an exception left _run: "none" | "makedirs" | "line"
    \* ---- PodcastMixer ----
    mix_output_dir,  \* self.output_dir of the mixer
    fs,              \* regular files: absolute path -> content
    dirs,            \* existing directories (absolute paths)
    mix_pc,          \* "idle" | "validate" | "first" | "merge" | "done" | "raised"
    mix_audio_files, \* the argument audio_files of the mixer's _run
    crossfade,       \* the argument crossfade
    validated_audio_files,
    mixed,           \* the accumulator: its length and where each input lies in it
    mix_i,           \* number of files merged so far
    mix_ret,         \* the value returned by the mixer's _run
    decoded,         \* paths given to AudioSegment.from_file in this call
    exported,        \* TRUE when mixed.export completed in this call
    mix_fail,        \* what made this call fail, "none" if nothing did
    runs,            \* number of mixer calls started
    pre_fs,          \* fs when the current call started
    pre_dirs,        \* dirs when the current call started
    rerun            \* the current call repeats the call before it, which
                     \* had exported, with the same arguments

gen_vars == <<voice_configs, normalize, gen_pc, dialogue, index, audio_files,
              gen_result, disk, synth_calls, outcomes, gen_raised>>
mix_vars == <<mix_output_dir, fs, dirs, mix_pc, mix_audio_files, crossfade,
              validated_audio_files, mixed, mix_i, mix_ret, decoded, exported,
              mix_fail, runs, pre_fs, pre_dirs, rerun>>
vars == <<gen_vars, mix_vars>>

(***************************************************************************)
(* Bounds of the model                                                     *)
(***************************************************************************)
\* longest dialogue of the exhaustive generator specification
MaxLines == 3
\* length of the long dialogues of SpecGenLong (indices 0 .. LongLen-1)
LongLen == 1001
\* longest audio_files list given to the mixer
MaxFiles == 3
\* number of mixer calls in one behaviour
MaxRuns == 2

(***************************************************************************)
(* Python strings                                                          *)
(***************************************************************************)
\* the characters the model uses, in code-point order
AsciiOrder ==
    <<" ", "-", ".", "/", "0", "1", "2", "3", "4", "5", "6", "7", "8", "9",
      "A", "B", "_", "a", "b", "c", "d", "e", "f", "g", "h", "i", "j", "k",
      "l", "m", "n", "o", "p", "q", "r", "s", "t", "u", "v", "w", "x", "y", "z">>

CharSet == { AsciiOrder[i] : i \in 1..Len(AsciiOrder) }

\* rank of a character in code-point order (comparisons only need the order)
Ord == [c \in CharSet |-> CHOOSE i \in 1..Len(AsciiOrder) : AsciiOrder[i] = c]

\* str.__lt__: lexicographic by code point, a proper prefix is smaller
RECURSIVE StrLess(_, _)
StrLess(a, b) ==
    IF b = <<>> THEN FALSE
    ELSE IF a = <<>> THEN TRUE
    ELSE IF Head(a) = Head(b) THEN StrLess(Tail(a), Tail(b))
    ELSE Ord[Head(a)] < Ord[Head(b)]

\* insertion of x into a sorted list, after the entries not greater than it
RECURSIVE Insert(_, _)
Insert(x, s) ==
    IF s = <<>> THEN <<x>>
    ELSE IF StrLess(x, Head(s)) THEN <<x>> \o s
    ELSE <<Head(s)>> \o Insert(x, Tail(s))

\* sorted(list): stable ascending sort by str.__lt__
RECURSIVE Sorted(_)
Sorted(s) ==
    IF s = <<>> THEN <<>>
    ELSE Insert(s[Len(s)], Sorted(SubSeq(s, 1, Len(s) - 1)))

\* str.strip(): drop leading and trailing whitespace
RECURSIVE LStrip(_)
LStrip(s) == IF s # <<>> /\ Head(s) = " " THEN LStrip(Tail(s)) ELSE s
RECURSIVE RStrip(_)
RStrip(s) ==
    IF s # <<>> /\ s[Len(s)] = " " THEN RStrip(SubSeq(s, 1, Len(s) - 1)) ELSE s
Strip(s) == RStrip(LStrip(s))

DigitChar == <<"0", "1", "2", "3", "4", "5", "6", "7", "8", "9">>

\* str(n) for n >= 0
RECURSIVE Digits(_)
Digits(n) ==
    IF n < 10 THEN <<DigitChar[n + 1]>>
    ELSE Digits(n \div 10) \o <<DigitChar[(n % 10) + 1]>>

\* zero padding of a digit string up to a minimum width
RECURSIVE ZeroPad(_, _)
ZeroPad(s, width) == IF Len(s) >= width THEN s ELSE ZeroPad(<<"0">> \o s, width)

\* minimum width of the index field in f"{index:03d}"
IndexWidth == 3

\* f"{index:03d}"
Fmt03(n) == ZeroPad(Digits(n), IndexWidth)

(***************************************************************************)
(* PodcastAudioGenerator                                                   *)
(***************************************************************************)
\* PodcastAudioGenerator.output_dir (its default)
gen_output_dir ==
    <<"o", "u", "t", "p", "u", "t", "/", "a", "u", "d", "i", "o", "-",
      "f", "i", "l", "e", "s">>

\* AudioConfig.format (its default)
audio_format == <<"m", "p", "3">>

\* a value that is not a str (None): .strip() on it raises AttributeError
None == <<"<None>">>
\* marks a key that the dict does not have
Missing == <<"<missing>">>

\* a dialogue segment: a dict with the keys that are present
Segment(s, t) ==
    [k \in (IF s = Missing THEN {} ELSE {"speaker"})
           \cup (IF t = Missing THEN {} ELSE {"text"})
       |-> IF k = "speaker" THEN s ELSE t]

\* dict.get(key, "")
Get(segment, key) == IF key \in DOMAIN segment THEN segment[key] ELSE <<>>

\* the segments dialogues are built from: no keys at all, a blank speaker,
\* a speaker that needs trimming, a plain one, a blank text, and a speaker or
\* a text that is not a str
Segments ==
    { Segment(Missing, Missing),
      Segment(<<" ">>, <<"h">>),
      Segment(<<" ", "A">>, <<"h">>),
      Segment(<<"B">>, <<"h">>),
      Segment(<<"B">>, <<" ">>),
      Segment(None, <<"h">>),
      Segment(<<"B">>, None) }

\* every dialogue of at most n segments
Dialogues(n) == UNION { [1..k -> Segments] : k \in 0..n }

\* names add_voice is called with
VoiceNames == {<<"A">>, <<"B">>}

\* the segment at loop position i (enumerate counts from 0)
SegmentAt(d, i) == d[i + 1]

\* lines 73-74: .get(...).strip() raises when the value is not a str
Malformed(segment) ==
    Get(segment, "speaker") = None \/ Get(segment, "text") = None

Speaker(segment) == Strip(Get(segment, "speaker"))
Text(segment) == Strip(Get(segment, "text"))

\* a mutation of ShouldSkip: the voice lookup of lines 80-83 is left out
ShouldSkipNoLookup(segment, voices) ==
    Speaker(segment) = <<>> \/ Text(segment) = <<>>

\* lines 76-83: the two `continue` branches ahead of the try block
ShouldSkip(segment, voices) ==
    \/ Speaker(segment) = <<>>
    \/ Text(segment) = <<>>
    \/ Speaker(segment) \notin voices

\* line 102: f"{output_dir}/{index:03d}_{speaker}.{format}"
Filename(i, speaker) ==
    gen_output_dir \o <<"/">> \o Fmt03(i) \o <<"_">> \o speaker
        \o <<".">> \o audio_format

\* a mutation of AfterNormalizeFailure: the path is appended before the
\* normalization has finished
AppendBeforeNormalize(files, filename) == Append(files, filename)

\* lines 107-126: an exception in the normalize block skips line 121
AfterNormalizeFailure(files, filename) == files

\* line 128
ReturnValue(files) == Sorted(files)

\* add_voice(name, voice_id, config)
AddVoice(name) ==
    /\ gen_pc = "idle"
    /\ name \notin voice_configs
    /\ voice_configs' = voice_configs \cup {name}
    /\ UNCHANGED <<normalize, gen_pc, dialogue, index, audio_files, gen_result,
                   disk, synth_calls, outcomes, gen_raised>>
    /\ UNCHANGED mix_vars

\* _run entered, os.makedirs (line 69) succeeds, the loop starts
GenRun(d) ==
    /\ gen_pc = "idle"
    /\ dialogue' = d
    /\ gen_pc' = "loop"
    /\ index' = 0
    /\ audio_files' = <<>>
    /\ UNCHANGED <<voice_configs, normalize, gen_result, disk, synth_calls,
                   outcomes, gen_raised>>
    /\ UNCHANGED mix_vars

\* _run entered, os.makedirs (line 69, outside any try) raises
GenRunMakedirsFails(d) ==
    /\ gen_pc = "idle"
    /\ dialogue' = d
    /\ gen_pc' = "raised"
    /\ gen_raised' = "makedirs"
    /\ UNCHANGED <<voice_configs, normalize, index, audio_files, gen_result,
                   disk, synth_calls, outcomes>>
    /\ UNCHANGED mix_vars

InLoop == gen_pc = "loop" /\ index < Len(dialogue)

\* lines 73-74 raise AttributeError outside the try block
LineMalformed ==
    /\ InLoop
    /\ Malformed(SegmentAt(dialogue, index))
    /\ gen_pc' = "raised"
    /\ gen_raised' = "line"
    /\ UNCHANGED <<voice_configs, normalize, dialogue, index, audio_files,
                   gen_result, disk, synth_calls, outcomes>>
    /\ UNCHANGED mix_vars

\* lines 76-83: skipped, nothing is called or written
LineSkipped ==
    /\ InLoop
    /\ ~Malformed(SegmentAt(dialogue, index))
    /\ ShouldSkip(SegmentAt(dialogue, index), voice_configs)
    /\ index' = index + 1
    /\ outcomes' = Append(outcomes, "skipped")
    /\ UNCHANGED <<voice_configs, normalize, gen_pc, dialogue, audio_files,
                   gen_result, disk, synth_calls, gen_raised>>
    /\ UNCHANGED mix_vars

Synthesizable ==
    /\ InLoop
    /\ ~Malformed(SegmentAt(dialogue, index))
    /\ ~ShouldSkip(SegmentAt(dialogue, index), voice_configs)

CurrentFile == Filename(index, Speaker(SegmentAt(dialogue, index)))

\* lines 86-100: convert() or the chunk join raises, caught at line 124
LineSynthesisFails ==
    /\ Synthesizable
    /\ synth_calls' = synth_calls \cup {index}
    /\ index' = index + 1
    /\ outcomes' = Append(outcomes, "synth_failed")
    /\ UNCHANGED <<voice_configs, normalize, gen_pc, dialogue, audio_files,
                   gen_result, disk, gen_raised>>
    /\ UNCHANGED mix_vars

\* lines 103-104: open() raises (no file) or write() raises (a partial file)
LineWriteFails ==
    /\ Synthesizable
    /\ synth_calls' = synth_calls \cup {index}
    /\ \E left \in {"none", "partial"} :
          disk' = IF left = "none" THEN disk ELSE (CurrentFile :> "partial") @@ disk
    /\ index' = index + 1
    /\ outcomes' = Append(outcomes, "write_failed")
    /\ UNCHANGED <<voice_configs, normalize, gen_pc, dialogue, audio_files,
                   gen_result, gen_raised>>
    /\ UNCHANGED mix_vars

\* lines 107-119: the raw file is written, then from_file, normalize or
\* export raises; export may have truncated the file before it failed
LineNormalizeFails ==
    /\ Synthesizable
    /\ normalize
    /\ synth_calls' = synth_calls \cup {index}
    /\ \E left \in {"raw", "partial"} : disk' = (CurrentFile :> left) @@ disk
    /\ audio_files' = AfterNormalizeFailure(audio_files, CurrentFile)
    /\ index' = index + 1
    /\ outcomes' = Append(outcomes, "normalize_failed")
    /\ UNCHANGED <<voice_configs, normalize, gen_pc, dialogue, gen_result,
                   gen_raised>>
    /\ UNCHANGED mix_vars

\* lines 86-122 without an exception
LineSucceeds ==
    /\ Synthesizable
    /\ synth_calls' = synth_calls \cup {index}
    /\ disk' = (CurrentFile :> (IF normalize THEN "normalized" ELSE "raw")) @@ disk
    /\ audio_files' = Append(audio_files, CurrentFile)
    /\ index' = index + 1
    /\ outcomes' = Append(outcomes, "ok")
    /\ UNCHANGED <<voice_configs, normalize, gen_pc, dialogue, gen_result,
                   gen_raised>>
    /\ UNCHANGED mix_vars

\* line 128
GenReturn ==
    /\ gen_pc = "loop"
    /\ index = Len(dialogue)
    /\ gen_result' = ReturnValue(audio_files)
    /\ gen_pc' = "done"
    /\ UNCHANGED <<voice_configs, normalize, dialogue, index, audio_files,
                   disk, synth_calls, outcomes, gen_raised>>
    /\ UNCHANGED mix_vars



(***************************************************************************)
(* PodcastMixer                                                            *)
(***************************************************************************)
\* os.getcwd()
cwd == <<"/", "w", "o", "r", "k">>

\* PodcastMixer.output_dir: its default, and an absolute directory
DefaultMixDir ==
    <<"o", "u", "t", "p", "u", "t", "/", "p", "o", "d", "c", "a", "s", "t">>
AbsoluteMixDir == <<"/", "s", "r", "v", "/", "m", "i", "x">>
MixDirs == {DefaultMixDir, AbsoluteMixDir}

FinalName ==
    <<"p", "o", "d", "c", "a", "s", "t", "_", "f", "i", "n", "a", "l", ".",
      "m", "p", "3">>

\* the two segment files of the model and the ways a caller names them
FileA == <<"/", "w", "o", "r", "k", "/", "a", ".", "m", "p", "3">>
FileB == <<"/", "w", "o", "r", "k", "/", "b", ".", "m", "p", "3">>
RelativeA == <<"a", ".", "m", "p", "3">>
InputPaths == {RelativeA, FileA, FileB}

\* every audio_files list of at most n paths
FileLists(n) == UNION { [1..k -> InputPaths] : k \in 0..n }

\* default of the crossfade parameter (ms)
DefaultCrossfade == 50
\* crossfades a caller passes (ms): none, the default, and one longer than
\* the inserted silence
CrossfadeValues == {0, DefaultCrossfade, 250}

\* durations of the decodable segment files (ms): one shorter than the
\* default crossfade, one longer than every crossfade
ClipDurations == {40, 300}

\* AudioSegment.silent(duration=200)
SilenceMs == 200

Audio(ms) == [kind |-> "audio", ms |-> ms]
Corrupt == [kind |-> "corrupt", ms |-> 0]
Partial == [kind |-> "partial", ms |-> 0]
Mix(ms) == [kind |-> "mix", ms |-> ms]
SegmentContents == {Corrupt} \cup { Audio(ms) : ms \in ClipDurations }

\* os.path.isabs
IsAbs(p) == p # <<>> /\ p[1] = "/"

\* os.path.join(a, b)
Join(a, b) ==
    IF IsAbs(b) THEN b
    ELSE IF a = <<>> \/ a[Len(a)] = "/" THEN a \o b
    ELSE a \o <<"/">> \o b

\* the file the operating system opens for path p
OsPath(p) == Join(cwd, p)

\* line 157
SegmentPath(af) == IF IsAbs(af) THEN af ELSE Join(cwd, af)

\* os.path.exists
Exists(p) == OsPath(p) \in DOMAIN fs \/ OsPath(p) \in dirs

\* p and every ancestor directory of it below the root
Ancestors(p) ==
    { SubSeq(p, 1, k) : k \in { j \in 2..Len(p) : j = Len(p) \/ p[j + 1] = "/" } }

\* os.makedirs(path, exist_ok=True)
MakeDirs(path) == dirs \cup Ancestors(OsPath(path))

\* os.makedirs(path, exist_ok=True) raising at the directory `at`: makedirs
\* creates the missing ancestors from the top down, one mkdir each, so the
\* ones above `at` were made before the exception
MakeDirsUpTo(path, at) ==
    dirs \cup { a \in Ancestors(OsPath(path)) : Len(a) < Len(at) }

\* a mutation of EarlyReturn: the empty list is not returned early
EarlyReturnNever(files) == FALSE

\* line 144: `if not audio_files`
EarlyReturn(files) == files = <<>>

\* a mutation of OutputFile: one output file per call
OutputFilePerRun(dir) == Join(dir, Digits(runs) \o FinalName)

\* line 176
OutputFile(dir) == Join(dir, FinalName)

\* a mutation of ExceptPc: the exception leaves _run
ExceptPropagates == "raised"

\* lines 192-196: every Exception raised in the try block is caught
ExceptPc == "done"

\* a mutation of MissingPaths: only the first path is checked
MissingFirstOnly(files) ==
    { i \in 1..Len(files) : i = 1 /\ ~Exists(SegmentPath(files[i])) }

\* lines 155-160: positions of the paths that do not exist
MissingPaths(files) == { i \in 1..Len(files) : ~Exists(SegmentPath(files[i])) }

\* AudioSegment.from_file succeeds on a regular file holding audio
Decodable(p) == OsPath(p) \in DOMAIN fs /\ fs[OsPath(p)].kind \in {"audio", "mix"}

\* AudioSegment.append raises ValueError for a crossfade longer than either side
CrossfadeRejected(acc_ms, seg_ms, cf) == cf # 0 /\ (cf > acc_ms \/ cf > seg_ms)

\* a mutation of AppendSegment: the silence of lines 170-171 is left out
AppendNoSilence(acc, path, ms, cf) ==
    [ms   |-> acc.ms + ms - cf,
     segs |-> Append(acc.segs, [src |-> path, start |-> acc.ms - cf,
                                stop |-> acc.ms - cf + ms])]

\* lines 170-172: silence + next_segment, appended with the crossfade; the
\* speech of the new file starts after what is left of the silence
AppendSegment(acc, path, ms, cf) ==
    [ms   |-> acc.ms + (SilenceMs + ms) - cf,
     segs |-> Append(acc.segs, [src |-> path, start |-> acc.ms - cf + SilenceMs,
                                stop |-> acc.ms - cf + SilenceMs + ms])]

EmptyTrack == [ms |-> 0, segs |-> <<>>]

\* a caller that holds no result of an earlier call may call
CanCall == mix_pc = "idle" /\ runs < MaxRuns

\* a caller that just got a path back may call again with the same arguments
CanRepeat == mix_pc = "done" /\ exported /\ runs < MaxRuns

\* the variables every call sets when it starts
CallStarts(files, cf) ==
    /\ mix_audio_files' = files
    /\ crossfade' = cf
    /\ runs' = runs + 1
    /\ pre_fs' = fs
    /\ pre_dirs' = dirs
    /\ rerun' = (mix_pc = "done" /\ exported
                     /\ files = mix_audio_files /\ cf = crossfade)
    /\ validated_audio_files' = <<>>
    /\ mixed' = EmptyTrack
    /\ mix_i' = 0
    /\ decoded' = {}
    /\ exported' = FALSE

\* the except block: log, return ""
Caught(why) ==
    /\ mix_pc' = ExceptPc
    /\ mix_ret' = <<>>
    /\ mix_fail' = why

\* lines 144-146
MixRunEmpty(files, cf) ==
    /\ CanCall \/ CanRepeat
    /\ EarlyReturn(files)
    /\ CallStarts(files, cf)
    /\ mix_pc' = "done"
    /\ mix_ret' = <<>>
    /\ mix_fail' = "none"
    /\ UNCHANGED <<mix_output_dir, fs, dirs>>
    /\ UNCHANGED gen_vars

\* line 150 succeeds
MixRun(files, cf) ==
    /\ CanCall \/ CanRepeat
    /\ ~EarlyReturn(files)
    /\ CallStarts(files, cf)
    /\ dirs' = MakeDirs(mix_output_dir)
    /\ mix_pc' = "validate"
    /\ mix_ret' = <<>>
    /\ mix_fail' = "none"
    /\ UNCHANGED <<mix_output_dir, fs>>
    /\ UNCHANGED gen_vars

\* line 150 raises (permissions, a file in the way) at one of the
\* directories of the path, after the ones above it were created
MixRunMakedirsFails(files, cf) ==
    /\ CanCall \/ CanRepeat
    /\ ~EarlyReturn(files)
    /\ CallStarts(files, cf)
    /\ \E at \in Ancestors(OsPath(mix_output_dir)) :
          dirs' = MakeDirsUpTo(mix_output_dir, at)
    /\ Caught("makedirs")
    /\ UNCHANGED <<mix_output_dir, fs>>
    /\ UNCHANGED gen_vars

\* lines 154-160: a path that does not exist ends the call
MixValidateMissing ==
    /\ mix_pc = "validate"
    /\ MissingPaths(mix_audio_files) # {}
    /\ mix_pc' = "done"
    /\ mix_ret' = <<>>
    /\ mix_fail' = "missing"
    /\ UNCHANGED <<mix_output_dir, fs, dirs, mix_audio_files, crossfade,
                   validated_audio_files, mixed, mix_i, decoded, exported,
                   runs, pre_fs, pre_dirs, rerun>>
    /\ UNCHANGED gen_vars

\* lines 154-161: every path exists
MixValidateOk ==
    /\ mix_pc = "validate"
    /\ MissingPaths(mix_audio_files) = {}
    /\ validated_audio_files' =
          [i \in 1..Len(mix_audio_files) |-> SegmentPath(mix_audio_files[i])]
    /\ mix_pc' = "first"
    /\ UNCHANGED <<mix_output_dir, fs, dirs, mix_audio_files, crossfade, mixed,
                   mix_i, mix_ret, decoded, exported, mix_fail, runs, pre_fs,
                   pre_dirs, rerun>>
    /\ UNCHANGED gen_vars

FirstDecodes ==
    validated_audio_files # <<>> /\ Decodable(validated_audio_files[1])

\* line 164 raises: validated_audio_files[0] or from_file
MixFirstFails ==
    /\ mix_pc = "first"
    /\ ~FirstDecodes
    /\ decoded' = decoded \cup
          (IF validated_audio_files = <<>> THEN {} ELSE {validated_audio_files[1]})
    /\ Caught("decode")
    /\ UNCHANGED <<mix_output_dir, fs, dirs, mix_audio_files, crossfade,
                   validated_audio_files, mixed, mix_i, exported, runs, pre_fs,
                   pre_dirs, rerun>>
    /\ UNCHANGED gen_vars

\* line 164: the first file becomes the accumulator
MixFirstOk ==
    /\ mix_pc = "first"
    /\ FirstDecodes
    /\ LET p == validated_audio_files[1]
           ms == fs[OsPath(p)].ms
       IN  mixed' = [ms |-> ms, segs |-> <<[src |-> p, start |-> 0, stop |-> ms]>>]
    /\ decoded' = decoded \cup {validated_audio_files[1]}
    /\ mix_i' = 1
    /\ mix_pc' = "merge"
    /\ UNCHANGED <<mix_output_dir, fs, dirs, mix_audio_files, crossfade,
                   validated_audio_files, mix_ret, exported, mix_fail, runs,
                   pre_fs, pre_dirs, rerun>>
    /\ UNCHANGED gen_vars

Merging == mix_pc = "merge" /\ mix_i < Len(validated_audio_files)
NextFile == validated_audio_files[mix_i + 1]

\* line 168 raises
MixNextDecodeFails ==
    /\ Merging
    /\ ~Decodable(NextFile)
    /\ decoded' = decoded \cup {NextFile}
    /\ Caught("decode")
    /\ UNCHANGED <<mix_output_dir, fs, dirs, mix_audio_files, crossfade,
                   validated_audio_files, mixed, mix_i, exported, runs, pre_fs,
                   pre_dirs, rerun>>
    /\ UNCHANGED gen_vars

\* line 172 raises: the crossfade does not fit
MixAppendRejected ==
    /\ Merging
    /\ Decodable(NextFile)
    /\ CrossfadeRejected(mixed.ms, SilenceMs + fs[OsPath(NextFile)].ms, crossfade)
    /\ decoded' = decoded \cup {NextFile}
    /\ Caught("crossfade")
    /\ UNCHANGED <<mix_output_dir, fs, dirs, mix_audio_files, crossfade,
                   validated_audio_files, mixed, mix_i, exported, runs, pre_fs,
                   pre_dirs, rerun>>
    /\ UNCHANGED gen_vars

\* lines 168-172
MixAppendOk ==
    /\ Merging
    /\ Decodable(NextFile)
    /\ ~CrossfadeRejected(mixed.ms, SilenceMs + fs[OsPath(NextFile)].ms, crossfade)
    /\ mixed' = AppendSegment(mixed, NextFile, fs[OsPath(NextFile)].ms, crossfade)
    /\ decoded' = decoded \cup {NextFile}
    /\ mix_i' = mix_i + 1
    /\ UNCHANGED <<mix_output_dir, fs, dirs, mix_pc, mix_audio_files, crossfade,
                   validated_audio_files, mix_ret, exported, mix_fail, runs,
                   pre_fs, pre_dirs, rerun>>
    /\ UNCHANGED gen_vars

Merged == mix_pc = "merge" /\ mix_i = Len(validated_audio_files)

\* lines 176-190
MixExportOk ==
    /\ Merged
    /\ fs' = (OsPath(OutputFile(mix_output_dir)) :> Mix(mixed.ms)) @@ fs
    /\ exported' = TRUE
    /\ mix_ret' = OutputFile(mix_output_dir)
    /\ mix_pc' = "done"
    /\ UNCHANGED <<mix_output_dir, dirs, mix_audio_files, crossfade,
                   validated_audio_files, mixed, mix_i, decoded, mix_fail, runs,
                   pre_fs, pre_dirs, rerun>>
    /\ UNCHANGED gen_vars

\* line 179 raises: the output file is as before, or was opened and truncated
MixExportFails ==
    /\ Merged
    /\ \E left \in {"untouched", "partial"} :
          fs' = IF left = "untouched" THEN fs
                ELSE (OsPath(OutputFile(mix_output_dir)) :> Partial) @@ fs
    /\ Caught("export")
    /\ UNCHANGED <<mix_output_dir, dirs, mix_audio_files, crossfade,
                   validated_audio_files, mixed, mix_i, decoded, exported, runs,
                   pre_fs, pre_dirs, rerun>>
    /\ UNCHANGED gen_vars


\* _run has returned and the caller has dropped what it got: the locals of
\* the call are gone, another call may follow
MixReturn ==
    /\ mix_pc = "done"
    /\ mix_pc' = "idle"
    /\ mix_audio_files' = <<>>
    /\ crossfade' = DefaultCrossfade
    /\ validated_audio_files' = <<>>
    /\ mixed' = EmptyTrack
    /\ mix_i' = 0
    /\ mix_ret' = <<>>
    /\ decoded' = {}
    /\ exported' = FALSE
    /\ mix_fail' = "none"
    /\ pre_fs' = fs
    /\ pre_dirs' = dirs
    /\ rerun' = FALSE
    /\ UNCHANGED <<mix_output_dir, fs, dirs, runs>>
    /\ UNCHANGED gen_vars

(***************************************************************************)
(* Specifications                                                          *)
(***************************************************************************)
\* long dialogues: LongLen segments, without keys except possibly the last two
LongDialogues ==
    { [i \in 1..LongLen |->
          IF i = LongLen - 1 THEN x ELSE IF i = LongLen THEN y
          ELSE Segment(Missing, Missing)] :
      x \in {Segment(Missing, Missing), Segment(<<"B">>, <<"h">>)},
      y \in {Segment(Missing, Missing), Segment(<<"B">>, <<"h">>),
              Segment(None, <<"h">>)} }

\* both tools after construction; no segment file exists yet
InitGen ==
    /\ voice_configs = {}
    /\ normalize \in BOOLEAN
    /\ gen_pc = "idle"
    /\ dialogue = <<>>
    /\ index = 0
    /\ audio_files = <<>>
    /\ gen_result = <<>>
    /\ disk = <<>>
    /\ synth_calls = {}
    /\ outcomes = <<>>
    /\ gen_raised = "none"
    /\ mix_output_dir = DefaultMixDir
    /\ fs = <<>>
    /\ dirs = {cwd}
    /\ mix_pc = "idle"
    /\ mix_audio_files = <<>>
    /\ crossfade = DefaultCrossfade
    /\ validated_audio_files = <<>>
    /\ mixed = EmptyTrack
    /\ mix_i = 0
    /\ mix_ret = <<>>
    /\ decoded = {}
    /\ exported = FALSE
    /\ mix_fail = "none"
    /\ runs = 0
    /\ pre_fs = <<>>
    /\ pre_dirs = {cwd}
    /\ rerun = FALSE

\* both tools after construction; each segment file is absent, corrupt or
\* holds a clip, and the mixer's output directory does not exist yet
InitMix ==
    /\ voice_configs = {}
    /\ normalize = TRUE
    /\ gen_pc = "idle"
    /\ dialogue = <<>>
    /\ index = 0
    /\ audio_files = <<>>
    /\ gen_result = <<>>
    /\ disk = <<>>
    /\ synth_calls = {}
    /\ outcomes = <<>>
    /\ gen_raised = "none"
    /\ mix_output_dir \in MixDirs
    /\ \E a, b \in SegmentContents :
          \E has \in SUBSET {FileA, FileB} :
             fs = [p \in has |-> IF p = FileA THEN a ELSE b]
    /\ dirs = {cwd}
    /\ mix_pc = "idle"
    /\ mix_audio_files = <<>>
    /\ crossfade = DefaultCrossfade
    /\ validated_audio_files = <<>>
    /\ mixed = EmptyTrack
    /\ mix_i = 0
    /\ mix_ret = <<>>
    /\ decoded = {}
    /\ exported = FALSE
    /\ mix_fail = "none"
    /\ runs = 0
    /\ pre_fs = fs
    /\ pre_dirs = dirs
    /\ rerun = FALSE

StartRun == \E d \in Dialogues(MaxLines) : GenRun(d)
StartRunMakedirsFails == \E d \in Dialogues(MaxLines) : GenRunMakedirsFails(d)
StartLongRun == \E d \in LongDialogues : GenRun(d)
StartLongRunMakedirsFails == \E d \in LongDialogues : GenRunMakedirsFails(d)
RegisterVoice == \E name \in VoiceNames : AddVoice(name)

GenNext ==
    \/ RegisterVoice
    \/ gen_pc = "idle" /\ StartRun
    \/ gen_pc = "idle" /\ StartRunMakedirsFails
    \/ LineMalformed
    \/ LineSkipped
    \/ LineSynthesisFails
    \/ LineWriteFails
    \/ LineNormalizeFails
    \/ LineSucceeds
    \/ GenReturn

GenLongNext ==
    \/ RegisterVoice
    \/ gen_pc = "idle" /\ StartLongRun
    \/ gen_pc = "idle" /\ StartLongRunMakedirsFails
    \/ LineMalformed
    \/ LineSkipped
    \/ LineSynthesisFails
    \/ LineWriteFails
    \/ LineNormalizeFails
    \/ LineSucceeds
    \/ GenReturn

CallEmpty ==
    \E files \in FileLists(MaxFiles), cf \in CrossfadeValues : MixRunEmpty(files, cf)
Call ==
    \E files \in FileLists(MaxFiles), cf \in CrossfadeValues : MixRun(files, cf)
CallMakedirsFails ==
    \E files \in FileLists(MaxFiles), cf \in CrossfadeValues :
        MixRunMakedirsFails(files, cf)

MixNext ==
    \/ CanCall /\ CallEmpty
    \/ CanCall /\ Call
    \/ CanCall /\ CallMakedirsFails
    \/ MixValidateMissing
    \/ MixValidateOk
    \/ MixFirstFails
    \/ MixFirstOk
    \/ MixNextDecodeFails
    \/ MixAppendRejected
    \/ MixAppendOk
    \/ MixExportOk
    \/ MixExportFails
    \/ MixReturn
    \/ CanRepeat /\ MixRun(mix_audio_files, crossfade)
    \/ CanRepeat /\ MixRunMakedirsFails(mix_audio_files, crossfade)

SpecGen == InitGen /\ [][GenNext]_vars
SpecGenLong == InitGen /\ [][GenLongNext]_vars
SpecMix == InitMix /\ [][MixNext]_vars

(***************************************************************************)
(* Vocabulary of the properties                                            *)
(***************************************************************************)
DigitValue(c) == CHOOSE k \in 0..9 : DigitChar[k + 1] = c

\* the number written by the leading digits of s
RECURSIVE LeadingNumber(_, _)
LeadingNumber(s, acc) ==
    IF s # <<>> /\ Head(s) \in { DigitChar[k] : k \in 1..10 }
    THEN LeadingNumber(Tail(s), 10 * acc + DigitValue(Head(s)))
    ELSE acc

\* the ordinal prefix of a generated file name
OrdinalOf(name) ==
    LeadingNumber(SubSeq(name, Len(gen_output_dir) + 2, Len(name)), 0)

Range(s) == { s[k] : k \in 1..Len(s) }

\* indices of the lines handled so far
Processed == 0..(Len(outcomes) - 1)

\* the line is to be skipped: blank speaker or text, or no voice profile
Unsynthesizable(i) ==
    LET seg == SegmentAt(dialogue, i)
    IN  /\ ~Malformed(seg)
        /\ \/ Strip(Get(seg, "speaker")) = <<>>
           \/ Strip(Get(seg, "text")) = <<>>
           \/ Strip(Get(seg, "speaker")) \notin voice_configs

FileOfLine(i) == Filename(i, Strip(Get(SegmentAt(dialogue, i), "speaker")))

\* the call named at least one path that did not exist when it started
HadMissingInput ==
    \E k \in 1..Len(mix_audio_files) :
        /\ SegmentPath(mix_audio_files[k]) \notin DOMAIN pre_fs
        /\ SegmentPath(mix_audio_files[k]) \notin pre_dirs

\* every input of the call existed and held audio when it started
AllInputsValid ==
    /\ mix_audio_files # <<>>
    /\ \A k \in 1..Len(mix_audio_files) :
          /\ SegmentPath(mix_audio_files[k]) \in DOMAIN pre_fs
          /\ pre_fs[SegmentPath(mix_audio_files[k])].kind = "audio"

InputMs(k) == pre_fs[SegmentPath(mix_audio_files[k])].ms

\* length of the track after the first k inputs: the clips, and between two
\* of them the silence less the crossfade
RECURSIVE TrackMs(_)
TrackMs(k) ==
    IF k = 0 THEN 0
    ELSE IF k = 1 THEN InputMs(1)
    ELSE TrackMs(k - 1) + InputMs(k) + SilenceMs - crossfade

\* the crossfade is accepted at every append of the call
CrossfadeFits ==
    \/ crossfade = 0
    \/ \A k \in 2..Len(mix_audio_files) :
          crossfade <= TrackMs(k - 1) /\ crossfade <= SilenceMs + InputMs(k)

FinalPath == OsPath(Join(mix_output_dir, FinalName))

\* the regular files directly or indirectly under the mixer's output_dir
OutputDirFiles(files) ==
    LET d == OsPath(mix_output_dir) \o <<"/">>
    IN  { q \in DOMAIN files : Len(q) > Len(d) /\ SubSeq(q, 1, Len(d)) = d }

\* silence left between the speech of input k-1 and the speech of input k
Gap(k) == mixed.segs[k].start - mixed.segs[k - 1].stop

\* the accumulator is the left fold of the inputs, in input order
LeftFold ==
    /\ Len(mixed.segs) = mix_i
    /\ mixed.ms = TrackMs(mix_i)
    /\ \A k \in 1..mix_i :
          /\ mixed.segs[k].src = SegmentPath(mix_audio_files[k])
          /\ mixed.segs[k].stop - mixed.segs[k].start = InputMs(k)
          /\ mixed.segs[k].stop = TrackMs(k)

(***************************************************************************)
(* C1: the returned list is sorted ascending by file name, its ordinal     *)
(* prefixes strictly increase in list order, and the ordinals are exactly  *)
(* the input indices of the lines that succeeded - for dialogues of any    *)
(* length.                                                                 *)
(***************************************************************************)
C1_SortedByOrdinal ==
    gen_pc = "done" =>
        /\ \A k \in 1..(Len(gen_result) - 1) : StrLess(gen_result[k], gen_result[k + 1])
        /\ \A k \in 1..(Len(gen_result) - 1) :
              OrdinalOf(gen_result[k]) < OrdinalOf(gen_result[k + 1])
        /\ { OrdinalOf(gen_result[k]) : k \in 1..Len(gen_result) }
              = { i \in 0..(Len(dialogue) - 1) : outcomes[i + 1] = "ok" }

(***************************************************************************)
(* C2: no failure while handling one line aborts the batch: _run is never  *)
(* left by an exception raised in the loop, and when it returns every line *)
(* of the dialogue was handled.                                            *)
(***************************************************************************)
C2_BatchAlwaysCompletes ==
    /\ gen_raised # "line"
    /\ gen_pc = "done" => Len(outcomes) = Len(dialogue)

(***************************************************************************)
(* C3: a line whose trimmed speaker or text is empty, or whose trimmed     *)
(* speaker has no voice profile, causes no synthesis call, has no file and *)
(* no entry in the result; every other handled line has the file and the   *)
(* entry of its own index exactly when it succeeded.                       *)
(***************************************************************************)
C3_SkippedLinesLeaveNoTrace ==
    \A i \in Processed :
        IF Unsynthesizable(i)
        THEN /\ outcomes[i + 1] = "skipped"
             /\ i \notin synth_calls
             /\ \A name \in DOMAIN disk : OrdinalOf(name) # i
             /\ \A name \in Range(audio_files) \cup Range(gen_result) :
                   OrdinalOf(name) # i
        ELSE /\ i \in synth_calls
             /\ outcomes[i + 1] # "skipped"
             /\ FileOfLine(i) \in Range(audio_files) <=> outcomes[i + 1] = "ok"
             /\ outcomes[i + 1] = "ok" => FileOfLine(i) \in DOMAIN disk
             /\ outcomes[i + 1] = "synth_failed" => FileOfLine(i) \notin DOMAIN disk
             /\ gen_pc = "done" =>
                   (FileOfLine(i) \in Range(gen_result) <=> outcomes[i + 1] = "ok")

\* a finished run with a blank speaker, an unregistered speaker and a line
\* that succeeded after them
C3_Witness ==
    /\ gen_pc = "done"
    /\ Len(dialogue) = 3
    /\ Get(dialogue[1], "speaker") = <<" ">>
    /\ Get(dialogue[2], "speaker") = <<"B">> /\ Get(dialogue[2], "text") = <<"h">>
    /\ <<"B">> \notin voice_configs
    /\ outcomes = <<"skipped", "skipped", "ok">>
    /\ gen_result = <<Filename(2, <<"A">>)>>

(***************************************************************************)
(* C10: a path is in the list only when its file was written and, with     *)
(* normalize on, normalized; a line whose normalization failed leaves a    *)
(* file that is not normalized on disk and no path in the list, so the     *)
(* files written are a superset of the returned paths.                     *)
(***************************************************************************)
C10_ResultOnlyAfterNormalize ==
    /\ \A name \in Range(audio_files) \cup Range(gen_result) :
          /\ name \in DOMAIN disk
          /\ disk[name] = IF normalize THEN "normalized" ELSE "raw"
    /\ \A i \in Processed :
          outcomes[i + 1] = "normalize_failed" =>
              /\ FileOfLine(i) \in DOMAIN disk
              /\ disk[FileOfLine(i)] # "normalized"
              /\ FileOfLine(i) \notin Range(audio_files) \cup Range(gen_result)

\* a finished run that returned a path and wrote one more file than it returned
C10_Witness ==
    /\ gen_pc = "done"
    /\ gen_result # <<>>
    /\ \E i \in Processed :
          /\ outcomes[i + 1] = "normalize_failed"
          /\ disk[FileOfLine(i)] = "raw"
    /\ Range(gen_result) # DOMAIN disk
    /\ Range(gen_result) \subseteq DOMAIN disk

(***************************************************************************)
(* C4 as stated: with a missing input the call returns "", decodes         *)
(* nothing, leaves every file as it was and creates nothing at all.        *)
(***************************************************************************)
C4_MissingInputCreatesNothing ==
    (mix_pc = "done" /\ mix_audio_files # <<>> /\ HadMissingInput) =>
        /\ mix_ret = <<>>
        /\ decoded = {}
        /\ fs = pre_fs
        /\ dirs = pre_dirs

(***************************************************************************)
(* C4 amended: with a missing input the call returns "", decodes nothing   *)
(* and leaves every file as it was (podcast_final.mp3 is neither created   *)
(* nor overwritten); the only thing it may create is the output directory. *)
(***************************************************************************)
C4_MissingInputAborts ==
    (mix_pc = "done" /\ mix_audio_files # <<>> /\ HadMissingInput) =>
        /\ mix_ret = <<>>
        /\ decoded = {}
        /\ ~exported
        /\ fs = pre_fs
        /\ pre_dirs \subseteq dirs
        /\ dirs \subseteq pre_dirs \cup Ancestors(OsPath(mix_output_dir))

\* the second call names an existing file and a missing one, after a first
\* call that exported podcast_final.mp3
C4_Witness ==
    /\ mix_pc = "done"
    /\ runs = 2
    /\ Len(mix_audio_files) = 2
    /\ SegmentPath(mix_audio_files[1]) \in DOMAIN pre_fs
    /\ SegmentPath(mix_audio_files[2]) \notin DOMAIN pre_fs
    /\ FinalPath \in DOMAIN pre_fs
    /\ fs[FinalPath] = pre_fs[FinalPath]
    /\ mix_fail = "missing"

(***************************************************************************)
(* C5: a call with an empty list returns "" and changes nothing: no        *)
(* directory is created, no file is read, written or overwritten.          *)
(***************************************************************************)
C5_EmptyListNoEffects ==
    (mix_pc = "done" /\ mix_audio_files = <<>>) =>
        /\ mix_ret = <<>>
        /\ fs = pre_fs
        /\ dirs = pre_dirs
        /\ decoded = {}
        /\ ~exported

\* a first call with the empty list, the output directory still absent
C5_Witness ==
    /\ mix_pc = "done"
    /\ runs = 1
    /\ mix_audio_files = <<>>
    /\ OsPath(mix_output_dir) \notin dirs

(***************************************************************************)
(* C6: no error leaves the mixer's _run, and the value it returns is       *)
(* non-empty exactly when the export completed.                            *)
(***************************************************************************)
C6_NeverPropagates ==
    /\ mix_pc # "raised"
    /\ mix_pc = "done" => (mix_ret # <<>> <=> exported)
    /\ (mix_pc = "done" /\ mix_fail # "none") => mix_ret = <<>>

\* a call that ended in the append step's rejection of the crossfade
C6_Witness ==
    /\ mix_pc = "done"
    /\ mix_fail = "crossfade"
    /\ mix_ret = <<>>
    /\ decoded # {}

(***************************************************************************)
(* C7: on success the returned path is absolute, for every output_dir.     *)
(***************************************************************************)
C7_ReturnsAbsolutePath ==
    (mix_pc = "done" /\ exported) => IsAbs(mix_ret)

(***************************************************************************)
(* C8 as stated: N >= 1 existing, decodable files and any crossfade value  *)
(* give exactly one output file, podcast_final.mp3 in the output           *)
(* directory, whose path is returned (the directory creation and the       *)
(* export themselves not failing).                                         *)
(***************************************************************************)
C8_ValidFilesAlwaysMix ==
    (mix_pc = "done" /\ AllInputsValid /\ mix_fail \notin {"makedirs", "export"}) =>
        /\ exported
        /\ mix_ret = Join(mix_output_dir, FinalName)
        /\ OutputDirFiles(fs) = {FinalPath}

(***************************************************************************)
(* C8 amended: N >= 1 existing, decodable files and a crossfade that every *)
(* append accepts give exactly one output file, podcast_final.mp3 in the   *)
(* output directory, whose path is returned; a repeated call overwrites    *)
(* that path and leaves the number of files in the directory unchanged.    *)
(***************************************************************************)
C8_ValidFilesMixWhenCrossfadeFits ==
    (/\ mix_pc = "done"
     /\ AllInputsValid
     /\ CrossfadeFits
     /\ mix_fail \notin {"makedirs", "export"}) =>
        /\ exported
        /\ mix_ret = Join(mix_output_dir, FinalName)
        /\ OutputDirFiles(fs) = {FinalPath}
        /\ DOMAIN fs = DOMAIN pre_fs \cup {FinalPath}
        /\ fs[FinalPath] = Mix(TrackMs(Len(mix_audio_files)))
        /\ rerun => FinalPath \in DOMAIN pre_fs
        /\ FinalPath \in DOMAIN pre_fs =>
              Cardinality(OutputDirFiles(fs)) = Cardinality(OutputDirFiles(pre_fs))

\* the second of two calls with the same two files and the same crossfade
C8_Witness ==
    /\ mix_pc = "done"
    /\ runs = 2
    /\ rerun
    /\ exported
    /\ Len(mix_audio_files) = 2
    /\ crossfade = DefaultCrossfade
    /\ OutputDirFiles(fs) = {FinalPath}

(***************************************************************************)
(* C9 as stated: the track is the left fold of the inputs in input order,  *)
(* each append adds the segment, 200 ms and takes the crossfade off, and   *)
(* the gap between consecutive segments is shorter than 200 ms whatever    *)
(* the crossfade.                                                          *)
(***************************************************************************)
C9_GapAlwaysShorter ==
    mix_pc \in {"merge", "done"} /\ mix_i >= 1 =>
        /\ LeftFold
        /\ \A k \in 2..mix_i : Gap(k) < SilenceMs

(***************************************************************************)
(* C9 amended: the track is the left fold of the inputs in input order,    *)
(* each accepted append adds the segment, 200 ms and takes the crossfade   *)
(* off, and the gap between consecutive segments is 200 ms less the        *)
(* crossfade: shorter than 200 ms exactly when the crossfade is positive.  *)
(***************************************************************************)
C9_GapIsSilenceLessCrossfade ==
    mix_pc \in {"merge", "done"} /\ mix_i >= 1 =>
        /\ LeftFold
        /\ \A k \in 2..mix_i :
              /\ Gap(k) = SilenceMs - crossfade
              /\ Gap(k) < SilenceMs <=> crossfade > 0

\* three files merged in an order that is not the sorted one, with the
\* default crossfade
C9_Witness ==
    /\ mix_pc = "done"
    /\ exported
    /\ mix_i = 3
    /\ crossfade = DefaultCrossfade
    /\ mixed.segs[1].src = FileB
    /\ mixed.segs[2].src = FileA
    /\ mixed.segs[3].src = FileB
    /\ mixed.ms = TrackMs(3)

====
